---- MODULE Spec2Model ----
(***************************************************************************)
(* Model of src/game.cpp: the bluffing card game for one human and three   *)
(* bots.  Players are identified by seat index 0..3 (0 = Human).  The      *)
(* body of Game::play is cut at the points where a random draw or a human  *)
(* input enters; pc names the position inside Game::play.                  *)
(***************************************************************************)
EXTENDS Integers, Sequences, FiniteSets, TLC

\* ---- bounds ----
\* number of deck permutations std::shuffle is allowed to produce
NumShuffles == 1
\* number of seats rand() % players.size() is allowed to pick as first player
NumStartSeats == 1
\* number of focus cards randomFocusCard is allowed to produce
NumFocus == 1
\* number of plays (turns) the game is followed for
MaxTurns == 7
\* number of questions (resolved challenges) the game is followed for
MaxQuestions == 3

\* ---- program constants ----
NumPlayers == 4
CardsPerPlayer == 5
MaxPlay == 3
BombLimit == 2

Min(a, b) == IF a < b THEN a ELSE b

Seats == 0 .. (NumPlayers - 1)
Cards == {"Sun", "Star", "Moon", "Magic"}

\* the seats the constructor may pick as first player (a bounded family)
StartSeats == {i \in Seats : i < NumStartSeats}

\* the vector randomFocusCard draws from
FocusVector == <<"Sun", "Moon", "Star">>

\* the focus cards randomFocusCard may return (a bounded family)
FocusCards == {FocusVector[i] : i \in 1 .. Min(NumFocus, Len(FocusVector))}

Name(i) == IF i = 0 THEN "Human" ELSE IF i = 1 THEN "Bot1" ELSE IF i = 2 THEN "Bot2" ELSE "Bot3"

IsBotName(nm) == nm \in {"Bot1", "Bot2", "Bot3"}

VARIABLES
    alive,              \* Player::alive per seat
    hand,               \* Player::hand per seat
    surviveCount,       \* Game::surviveCount, keyed by name
    lastPlayedByIndex,  \* Game::lastPlayedByIndex
    currentPlayerIndex, \* Game::currentPlayerIndex
    deck,               \* Deck::cards
    focus,              \* local focus of Game::play
    roundOver,          \* local roundOver
    anyQuestionAsked,   \* local anyQuestionAsked
    n,                  \* local n of the human turn
    next,               \* local next: the seat offered the question
    winner,             \* the seat the final scan announces (-1: none yet)
    asked,              \* the handleQuestioning call of this round: arguments and outcome
    challenger,         \* the questioner of the last handleQuestioning call, until the next play
    turns,              \* number of plays made so far
    questions,          \* number of questions resolved so far
    pc,                 \* position inside Game::play
    argPlayed,          \* playIsCorrect called on its own: the play
    argFocus,           \* playIsCorrect called on its own: the focus
    verdict,            \* playIsCorrect called on its own: the value returned
    argHand,            \* the human removal called on its own: the hand
    argChosen,          \* the human removal called on its own: chosen, as entered
    resPlayed,          \* the human removal called on its own: played, as recorded
    resHand             \* the human removal called on its own: the hand left

gameVars == <<alive, hand, surviveCount, lastPlayedByIndex, currentPlayerIndex,
              deck, focus, roundOver, anyQuestionAsked, n, next, winner, asked,
              challenger, turns, questions>>

callVars == <<argPlayed, argFocus, verdict, argHand, argChosen, resPlayed, resHand>>

vars == <<gameVars, pc, callVars>>

\* ---- Deck ----
Repeat(c, k) == [i \in 1 .. k |-> c]

FullDeck == Repeat("Sun", 6) \o Repeat("Star", 6) \o Repeat("Moon", 6) \o Repeat("Magic", 2)

\* one riffle of a deck: the two halves interleaved card by card
Riffle(d) ==
    LET h == Len(d) \div 2
    IN [i \in 1 .. Len(d) |-> IF i % 2 = 1 THEN d[(i + 1) \div 2] ELSE d[h + (i \div 2)]]

RECURSIVE Riffles(_, _)
Riffles(d, k) == IF k = 0 THEN d ELSE Riffles(Riffle(d), k - 1)

\* the orders std::shuffle may leave the deck in (a bounded family)
Shuffled == {Riffles(FullDeck, k) : k \in 0 .. (NumShuffles - 1)}

\* Deck::deal(k): the cards handed out, taken from the back
DealtHand(d, k) == [i \in 1 .. Min(k, Len(d)) |-> d[Len(d) + 1 - i]]

\* variant: the cards dealt are not taken off the deck
DeckAfterDealKeeps(d, k) == d

DeckAfterDeal(d, k) == SubSeq(d, 1, Len(d) - Min(k, Len(d)))

\* Game::dealCardsToAlive from seat i on: <<hands, deck>>
RECURSIVE DealFrom(_, _, _, _)
DealFrom(i, hs, d, k) ==
    IF i >= NumPlayers THEN <<hs, d>>
    ELSE IF alive[i]
         THEN DealFrom(i + 1, [hs EXCEPT ![i] = DealtHand(d, k)], DeckAfterDeal(d, k), k)
         ELSE DealFrom(i + 1, hs, d, k)

\* ---- Player ----
\* variant: the cards returned are read from the front of the hand
PlayedCardsFront(h, k) == [i \in 1 .. Min(k, Len(h)) |-> h[i]]

\* Player::playCards(k): the cards played, from the back of the hand
PlayedCards(h, k) == [i \in 1 .. Min(k, Len(h)) |-> h[Len(h) + 1 - i]]

HandAfterPlay(h, k) == SubSeq(h, 1, Len(h) - Min(k, Len(h)))

\* Player::removeCardAt with a 0-based index
RemoveCardAt(h, idx) ==
    IF idx >= 0 /\ idx < Len(h)
    THEN SubSeq(h, 1, idx) \o SubSeq(h, idx + 2, Len(h))
    ELSE h

\* ---- Game helpers ----
\* variant: the empty play is not rejected
playIsCorrectNoEmptyTest(played, f) ==
    \A i \in 1 .. Len(played) : ~(played[i] # f /\ played[i] # "Magic")

playIsCorrect(played, f) ==
    IF Len(played) = 0 THEN FALSE
    ELSE \A i \in 1 .. Len(played) : ~(played[i] # f /\ played[i] # "Magic")

WithCards(al, hs, i) == al[i] /\ Len(hs[i]) > 0

\* variant: the hand is not tested
NextAliveAnyHand(al, hs, start) ==
    LET hits == {i \in 1 .. NumPlayers : al[(start + i) % NumPlayers]}
    IN IF hits = {} THEN -1
       ELSE (start + (CHOOSE i \in hits : \A j \in hits : i <= j)) % NumPlayers

\* variant: the scan begins at start itself
NextAliveFromStart(al, hs, start) ==
    LET hits == {i \in 0 .. NumPlayers : WithCards(al, hs, (start + i) % NumPlayers)}
    IN IF hits = {} THEN -1
       ELSE (start + (CHOOSE i \in hits : \A j \in hits : i <= j)) % NumPlayers

\* Game::getNextAlivePlayer(start) on the given alive flags and hands
NextAliveIn(al, hs, start) ==
    LET hits == {i \in 1 .. NumPlayers : WithCards(al, hs, (start + i) % NumPlayers)}
    IN IF hits = {} THEN -1
       ELSE (start + (CHOOSE i \in hits : \A j \in hits : i <= j)) % NumPlayers

getNextAlivePlayer(start) == NextAliveIn(alive, hand, start)

countAlivePlayers == Cardinality({i \in Seats : alive[i]})

countAliveWithCards == Cardinality({i \in Seats : WithCards(alive, hand, i)})

\* variant: the name is never found
findPlayerIndexNone(nm) == -1

findPlayerIndex(nm) ==
    IF \E i \in Seats : Name(i) = nm
    THEN CHOOSE i \in Seats : Name(i) = nm /\ \A j \in Seats : Name(j) = nm => i <= j
    ELSE -1

\* no handleQuestioning call yet in this round
NoCall == [q |-> -1, p |-> -1, played |-> << >>, focus |-> "none", correct |-> FALSE,
           subject |-> -1, before |-> 0, died |-> FALSE, forced |-> FALSE]

\* ---- Init: the state Game::Game leaves ----
GameInit ==
    /\ alive = [i \in Seats |-> TRUE]
    /\ hand = [i \in Seats |-> << >>]
    /\ surviveCount = [i \in Seats |-> 0]
    /\ lastPlayedByIndex = [i \in Seats |-> << >>]
    /\ deck \in Shuffled
    /\ focus = "none"
    /\ roundOver = FALSE
    /\ anyQuestionAsked = FALSE
    /\ n = 0
    /\ next = -1
    /\ winner = -1
    /\ asked = NoCall
    /\ challenger = -1
    /\ turns = 0
    /\ questions = 0

Init ==
    /\ GameInit
    /\ currentPlayerIndex \in StartSeats
    /\ pc = "start"
    /\ argPlayed = << >>
    /\ argFocus = "none"
    /\ verdict = "none"
    /\ argHand = << >>
    /\ argChosen = << >>
    /\ resPlayed = << >>
    /\ resHand = << >>

\* ---- handleQuestioning ----
\* variant: the two branches exchanged
AtFaultSwapped(q, p, correctPlay) == IF correctPlay THEN p ELSE q

\* the party exposed to the bomb
AtFault(q, p, correctPlay) == IF ~correctPlay THEN p ELSE q

\* variant: no third-bomb rule
BombKillsNoLimit(cnt, explode) == explode

\* whether the exposed party dies: third bomb, or rand() % 3 == 0
BombKills(cnt, explode) == cnt >= BombLimit \/ explode

SurviveAfter(cnt, dies) == IF dies THEN 0 ELSE cnt + 1

\* variant: the pointer moves on to the player after the questioner
IndexAfterQuestionNext(q, al) ==
    LET nx == NextAliveIn(al, hand, q)
    IN IF nx # -1 THEN nx ELSE 0

\* currentPlayerIndex after a resolution with questioner q
IndexAfterQuestion(q, al) ==
    LET idx == findPlayerIndex(Name(q))
        fallback == NextAliveIn(al, hand, -1)
    IN IF idx # -1 THEN idx ELSE IF fallback # -1 THEN fallback ELSE 0

\* variant: the questioning does not end the round
QuestioningReturnsFalse == FALSE

\* the value handleQuestioning returns (assigned to roundOver)
QuestioningReturns == TRUE

\* variant: an exploding bomb takes both parties
handleQuestioningBoth(q, p, played, explode, forced) ==
    LET correctPlay == playIsCorrect(played, focus)
        s == AtFault(q, p, correctPlay)
        dies == BombKills(surviveCount[s], explode)
        al == IF dies THEN [alive EXCEPT ![q] = FALSE, ![p] = FALSE] ELSE alive
    IN /\ alive' = al
       /\ surviveCount' = [surviveCount EXCEPT ![s] = SurviveAfter(@, dies)]
       /\ currentPlayerIndex' = IndexAfterQuestion(q, al)
       /\ asked' = [q |-> q, p |-> p, played |-> played, focus |-> focus,
                    correct |-> correctPlay, subject |-> s,
                    before |-> surviveCount[s], died |-> dies, forced |-> forced]
       /\ challenger' = q

\* Game::handleQuestioning(players[q], players[p], played, focus)
handleQuestioning(q, p, played, explode, forced) ==
    LET correctPlay == playIsCorrect(played, focus)
        s == AtFault(q, p, correctPlay)
        dies == BombKills(surviveCount[s], explode)
        al == IF dies THEN [alive EXCEPT ![s] = FALSE] ELSE alive
    IN /\ alive' = al
       /\ surviveCount' = [surviveCount EXCEPT ![s] = SurviveAfter(@, dies)]
       /\ currentPlayerIndex' = IndexAfterQuestion(q, al)
       /\ asked' = [q |-> q, p |-> p, played |-> played, focus |-> focus,
                    correct |-> correctPlay, subject |-> s,
                    before |-> surviveCount[s], died |-> dies, forced |-> forced]
       /\ challenger' = q

\* ---- Game::play ----
\* deck.reset(); dealCardsToAlive(5) on entry
StartPlay ==
    /\ pc = "start"
    /\ \E d \in Shuffled :
          LET r == DealFrom(0, hand, d, CardsPerPlayer)
          IN hand' = r[1] /\ deck' = r[2]
    /\ pc' = "outer"
    /\ UNCHANGED <<alive, surviveCount, lastPlayedByIndex, currentPlayerIndex, focus,
                   roundOver, anyQuestionAsked, n, next, winner, asked, challenger,
                   turns, questions>>
    /\ UNCHANGED callVars

\* the first alive player, as the final scan announces it (-1: nobody)
Winner ==
    IF \E i \in Seats : alive[i]
    THEN CHOOSE i \in Seats : alive[i] /\ \A j \in Seats : alive[j] => i <= j
    ELSE -1

\* variant: the driver stops with two players left
DriverContinuesAboveTwo == countAliveWithCards > 2

\* variant: the driver goes on while anybody holds cards
DriverContinuesWithOne == countAliveWithCards > 0

\* the test of the outer loop
DriverContinues == countAliveWithCards > 1

\* outer loop test passes: a round begins with a fresh focus card
RoundBegin ==
    /\ pc = "outer"
    /\ DriverContinues
    /\ focus' \in FocusCards
    /\ roundOver' = FALSE
    /\ anyQuestionAsked' = FALSE
    /\ pc' = "inner"
    /\ UNCHANGED <<alive, hand, surviveCount, lastPlayedByIndex, currentPlayerIndex,
                   deck, n, next, winner, asked, challenger, turns, questions>>
    /\ UNCHANGED callVars

\* outer loop test fails: the winner scan runs and play() returns
GameOver ==
    /\ pc = "outer"
    /\ ~DriverContinues
    /\ winner' = Winner
    /\ pc' = "done"
    /\ UNCHANGED <<alive, hand, surviveCount, lastPlayedByIndex, currentPlayerIndex,
                   deck, focus, roundOver, anyQuestionAsked, n, next, asked, challenger,
                   turns, questions>>
    /\ UNCHANGED callVars

\* variant: the round goes on while one player holds cards
TooFewToPlayNone == countAliveWithCards <= 0

\* the test at the top of the inner loop body
TooFewToPlay == countAliveWithCards <= 1

\* inner loop: fewer than two players can act, break
BreakRound ==
    /\ pc = "inner"
    /\ TooFewToPlay
    /\ pc' = "roundEnd"
    /\ UNCHANGED gameVars
    /\ UNCHANGED callVars

\* variant: the alive flag is not tested
CanPlayDead(i) == Len(hand[i]) > 0

\* the negation of the skip test: alive and holding a card
CanPlay(i) == alive[i] /\ Len(hand[i]) > 0

\* inner loop: the current player is dead or empty-handed and is skipped
SkipPlayer ==
    /\ pc = "inner"
    /\ ~TooFewToPlay
    /\ ~CanPlay(currentPlayerIndex)
    /\ LET nxt == getNextAlivePlayer(currentPlayerIndex)
       IN IF nxt = -1
          THEN roundOver' = TRUE /\ pc' = "roundEnd" /\ UNCHANGED currentPlayerIndex
          ELSE currentPlayerIndex' = nxt /\ pc' = "inner" /\ UNCHANGED roundOver
    /\ UNCHANGED <<alive, hand, surviveCount, lastPlayedByIndex, deck, focus,
                   anyQuestionAsked, n, next, winner, asked, challenger, turns, questions>>
    /\ UNCHANGED callVars

\* human turn: the count prompt accepts a number in 1..3
HumanCount ==
    /\ pc = "inner"
    /\ ~TooFewToPlay
    /\ CanPlay(currentPlayerIndex)
    /\ Name(currentPlayerIndex) = "Human"
    /\ turns < MaxTurns
    /\ n' \in 1 .. MaxPlay
    /\ pc' = "indices"
    /\ UNCHANGED <<alive, hand, surviveCount, lastPlayedByIndex, currentPlayerIndex,
                   deck, focus, roundOver, anyQuestionAsked, next, winner, asked,
                   challenger, turns, questions>>
    /\ UNCHANGED callVars

InSeq(x, sq) == \E i \in 1 .. Len(sq) : sq[i] = x

\* whether the index loop accepts the (1-based) input against hand h
IndexAccepted(input, h, ch) ==
    LET idx == input - 1
    IN ~(idx < 0 \/ idx >= Len(h)) /\ ~InSeq(idx, ch)

\* the values of chosen the index loop can hold after k accepted inputs;
\* a rejected input leaves chosen as it is
RECURSIVE ChosenAfter(_, _)
ChosenAfter(h, k) ==
    IF k = 0 THEN {<< >>}
    ELSE {Append(x[1], x[2] - 1) :
             x \in {y \in ChosenAfter(h, k - 1) \X (0 .. (CardsPerPlayer + 1)) :
                       IndexAccepted(y[2], h, y[1])}}

\* sort(chosen.rbegin(), chosen.rend()): descending order
RECURSIVE SortDesc(_)
SortDesc(sq) ==
    IF Len(sq) = 0 THEN << >>
    ELSE LET m == CHOOSE i \in 1 .. Len(sq) : \A j \in 1 .. Len(sq) : sq[i] >= sq[j]
         IN <<sq[m]>> \o SortDesc(SubSeq(sq, 1, m - 1) \o SubSeq(sq, m + 1, Len(sq)))

\* variant: the played cards are left in removal order
ReverseKeeps(sq) == sq

Reverse(sq) == [i \in 1 .. Len(sq) |-> sq[Len(sq) + 1 - i]]

\* the removal loop over the sorted indices: <<played, hand>>
RECURSIVE RemoveChosen(_, _, _)
RemoveChosen(idxs, played, h) ==
    IF Len(idxs) = 0 THEN <<played, h>>
    ELSE RemoveChosen(Tail(idxs), Append(played, h[Head(idxs) + 1]), RemoveCardAt(h, Head(idxs)))

HumanPlayed(h, ch) == Reverse(RemoveChosen(SortDesc(ch), << >>, h)[1])

HumanHandAfter(h, ch) == RemoveChosen(SortDesc(ch), << >>, h)[2]

\* what follows the recording of a play: next = getNextAlivePlayer(currentPlayerIndex)
AfterPlay(hs) ==
    LET nx == NextAliveIn(alive, hs, currentPlayerIndex)
    IN IF nx = -1
       THEN roundOver' = TRUE /\ pc' = "roundEnd" /\ UNCHANGED next
       ELSE next' = nx /\ pc' = "decide" /\ UNCHANGED roundOver

\* human turn: the index loop collects n accepted indices (it cannot leave
\* while fewer are accepted), then the chosen cards leave the hand and are recorded
HumanPlay ==
    /\ pc = "indices"
    /\ \E ch \in ChosenAfter(hand[currentPlayerIndex], n) :
          LET cur == currentPlayerIndex
              played == HumanPlayed(hand[cur], ch)
              hs == [hand EXCEPT ![cur] = HumanHandAfter(hand[cur], ch)]
              curIdx == findPlayerIndex(Name(cur))
          IN /\ hand' = hs
             /\ lastPlayedByIndex' = IF curIdx # -1
                                     THEN [lastPlayedByIndex EXCEPT ![curIdx] = played]
                                     ELSE lastPlayedByIndex
             /\ AfterPlay(hs)
    /\ n' = 0
    /\ challenger' = -1
    /\ turns' = turns + 1
    /\ UNCHANGED <<alive, surviveCount, currentPlayerIndex, deck, focus,
                   anyQuestionAsked, winner, asked, questions>>
    /\ UNCHANGED callVars

\* bot turn: rand() % 3 + 1 cards from the back of the hand, recorded
BotPlay ==
    /\ pc = "inner"
    /\ ~TooFewToPlay
    /\ CanPlay(currentPlayerIndex)
    /\ Name(currentPlayerIndex) # "Human"
    /\ turns < MaxTurns
    /\ \E k \in 1 .. MaxPlay :
          LET cur == currentPlayerIndex
              played == PlayedCards(hand[cur], k)
              hs == [hand EXCEPT ![cur] = HandAfterPlay(hand[cur], k)]
              curIdx == findPlayerIndex(Name(cur))
          IN /\ hand' = hs
             /\ lastPlayedByIndex' = IF curIdx # -1
                                     THEN [lastPlayedByIndex EXCEPT ![curIdx] = played]
                                     ELSE lastPlayedByIndex
             /\ AfterPlay(hs)
    /\ challenger' = -1
    /\ turns' = turns + 1
    /\ UNCHANGED <<alive, surviveCount, currentPlayerIndex, deck, focus,
                   anyQuestionAsked, n, winner, asked, questions>>
    /\ UNCHANGED callVars

\* whether the seat offered the decision may question at all: after a human
\* play only a bot may; after a bot play the human (y/n) or a bot (30%) may
MayQuestion(cur, nx) ==
    IF Name(cur) = "Human" THEN IsBotName(Name(nx)) ELSE TRUE

\* variant: the record is not looked up
RecordOfNothing(p) == << >>

\* toCheck / played: the record of player p's last play
RecordOf(p) ==
    LET ownerIdx == findPlayerIndex(Name(p))
    IN IF ownerIdx # -1 THEN lastPlayedByIndex[ownerIdx] ELSE << >>

\* the next player questions the play just made
Question ==
    /\ pc = "decide"
    /\ MayQuestion(currentPlayerIndex, next)
    /\ questions < MaxQuestions
    /\ \E explode \in BOOLEAN :
          handleQuestioning(next, currentPlayerIndex, RecordOf(currentPlayerIndex),
                            explode, FALSE)
    /\ roundOver' = QuestioningReturns
    /\ anyQuestionAsked' = TRUE
    /\ next' = -1
    /\ questions' = questions + 1
    /\ pc' = "forced"
    /\ UNCHANGED <<hand, lastPlayedByIndex, deck, focus, n, winner, turns>>
    /\ UNCHANGED callVars

\* the next player does not question
NoQuestion ==
    /\ pc = "decide"
    /\ next' = -1
    /\ pc' = "forced"
    /\ UNCHANGED <<alive, hand, surviveCount, lastPlayedByIndex, currentPlayerIndex,
                   deck, focus, roundOver, anyQuestionAsked, n, winner, asked,
                   challenger, turns, questions>>
    /\ UNCHANGED callVars

\* variant: the block is entered below two alive players instead of at two
ForcedFiresBelowTwo ==
    /\ ~roundOver
    /\ ~anyQuestionAsked /\ countAlivePlayers < 2
    /\ getNextAlivePlayer(currentPlayerIndex) # -1
    /\ Len(hand[currentPlayerIndex]) = 0

\* variant: the inner test of the hand is missing
ForcedFiresAnyHand ==
    /\ ~roundOver
    /\ ~anyQuestionAsked /\ countAlivePlayers = 2
    /\ getNextAlivePlayer(currentPlayerIndex) # -1

\* the forced-questioning block is entered and its inner condition holds
ForcedFires ==
    /\ ~roundOver
    /\ ~anyQuestionAsked /\ countAlivePlayers = 2
    /\ getNextAlivePlayer(currentPlayerIndex) # -1
    /\ Len(hand[currentPlayerIndex]) = 0

\* the forced-questioning block is entered and finds no next player
ForcedBreaks ==
    /\ ~roundOver
    /\ ~anyQuestionAsked /\ countAlivePlayers = 2
    /\ getNextAlivePlayer(currentPlayerIndex) = -1

\* the next player is forced to question the empty-handed previous player
ForcedQuestion ==
    /\ pc = "forced"
    /\ ForcedFires
    /\ questions < MaxQuestions
    /\ \E explode \in BOOLEAN :
          handleQuestioning(getNextAlivePlayer(currentPlayerIndex), currentPlayerIndex,
                            RecordOf(currentPlayerIndex), explode, TRUE)
    /\ roundOver' = QuestioningReturns
    /\ anyQuestionAsked' = TRUE
    /\ questions' = questions + 1
    /\ pc' = "advance"
    /\ UNCHANGED <<hand, lastPlayedByIndex, deck, focus, n, next, winner, turns>>
    /\ UNCHANGED callVars

\* the forced-questioning block does not question: it is not entered, its
\* inner condition fails, or it finds no next player and breaks
NoForcedQuestion ==
    /\ pc = "forced"
    /\ ~ForcedFires
    /\ IF ForcedBreaks
       THEN roundOver' = TRUE /\ pc' = "roundEnd"
       ELSE pc' = "advance" /\ UNCHANGED roundOver
    /\ UNCHANGED <<alive, hand, surviveCount, lastPlayedByIndex, currentPlayerIndex,
                   deck, focus, anyQuestionAsked, n, next, winner, asked, challenger,
                   turns, questions>>
    /\ UNCHANGED callVars

\* end of the loop body: the advance step unless the round is over, then the
\* test of the inner loop
Advance ==
    /\ pc = "advance"
    /\ IF ~roundOver
       THEN LET nxt == getNextAlivePlayer(currentPlayerIndex)
            IN IF nxt = -1
               THEN roundOver' = TRUE /\ pc' = "roundEnd" /\ UNCHANGED currentPlayerIndex
               ELSE currentPlayerIndex' = nxt /\ pc' = "inner" /\ UNCHANGED roundOver
       ELSE pc' = "roundEnd" /\ UNCHANGED <<roundOver, currentPlayerIndex>>
    /\ UNCHANGED <<alive, hand, surviveCount, lastPlayedByIndex, deck, focus,
                   anyQuestionAsked, n, next, winner, asked, challenger, turns, questions>>
    /\ UNCHANGED callVars

\* round transition: deck.reset(); dealCardsToAlive(5); anyQuestionAsked = false;
\* the locals of the round go out of scope
RoundEnd ==
    /\ pc = "roundEnd"
    /\ \E d \in Shuffled :
          LET r == DealFrom(0, hand, d, CardsPerPlayer)
          IN hand' = r[1] /\ deck' = r[2]
    /\ anyQuestionAsked' = FALSE
    /\ focus' = "none"
    /\ roundOver' = FALSE
    /\ asked' = NoCall
    /\ pc' = "outer"
    /\ UNCHANGED <<alive, surviveCount, lastPlayedByIndex, currentPlayerIndex,
                   n, next, winner, challenger, turns, questions>>
    /\ UNCHANGED callVars

Next ==
    \/ StartPlay
    \/ RoundBegin
    \/ GameOver
    \/ BreakRound
    \/ SkipPlayer
    \/ HumanCount
    \/ HumanPlay
    \/ BotPlay
    \/ Question
    \/ NoQuestion
    \/ ForcedQuestion
    \/ NoForcedQuestion
    \/ Advance
    \/ RoundEnd

Spec == Init /\ [][Next]_vars

\* every step of Game::play that waits for no index input
Runs ==
    \/ StartPlay
    \/ RoundBegin
    \/ GameOver
    \/ BreakRound
    \/ SkipPlayer
    \/ HumanCount
    \/ BotPlay
    \/ Question
    \/ NoQuestion
    \/ ForcedQuestion
    \/ NoForcedQuestion
    \/ Advance
    \/ RoundEnd

\* the program keeps running, and a decision to question that is offered
\* again and again is eventually taken
Fairness ==
    /\ WF_vars(Runs)
    /\ SF_vars(Question)

SpecFair == Spec /\ Fairness

\* ---- playIsCorrect on its own ----
\* every play of 0..3 cards
Plays == UNION {[1 .. k -> Cards] : k \in 0 .. MaxPlay}

InitCall ==
    /\ GameInit
    /\ currentPlayerIndex = 0
    /\ pc = "call"
    /\ argPlayed \in Plays
    /\ argFocus \in {FocusVector[i] : i \in 1 .. Len(FocusVector)}
    /\ verdict = "none"
    /\ argHand = << >>
    /\ argChosen = << >>
    /\ resPlayed = << >>
    /\ resHand = << >>

CallPlayIsCorrect ==
    /\ pc = "call"
    /\ verdict' = playIsCorrect(argPlayed, argFocus)
    /\ pc' = "returned"
    /\ UNCHANGED <<gameVars, argPlayed, argFocus, argHand, argChosen, resPlayed, resHand>>

NextCall == CallPlayIsCorrect

SpecCall == InitCall /\ [][NextCall]_vars

\* ---- the human card removal on its own ----
\* every hand of 1..5 cards
Hands == UNION {[1 .. k -> Cards] : k \in 1 .. CardsPerPlayer}

InitRemoval ==
    /\ GameInit
    /\ currentPlayerIndex = 0
    /\ pc = "chosen"
    /\ argPlayed = << >>
    /\ argFocus = "none"
    /\ verdict = "none"
    /\ argHand \in Hands
    /\ argChosen \in UNION {ChosenAfter(argHand, k) : k \in 1 .. MaxPlay}
    /\ resPlayed = << >>
    /\ resHand = << >>

\* sort, removal loop and reverse applied to the accepted indices
CallRemoval ==
    /\ pc = "chosen"
    /\ resPlayed' = HumanPlayed(argHand, argChosen)
    /\ resHand' = HumanHandAfter(argHand, argChosen)
    /\ pc' = "removed"
    /\ UNCHANGED <<gameVars, argPlayed, argFocus, verdict, argHand, argChosen>>

NextRemoval == CallRemoval

SpecRemoval == InitRemoval /\ [][NextRemoval]_vars


\* ---- properties ----
\* a play matches a focus: it is not empty and each card is the focus or Magic
PlayMatches(play, f) ==
    /\ Len(play) > 0
    /\ \A i \in 1 .. Len(play) : play[i] = f \/ play[i] = "Magic"

\* a step that resolves a question
Resolves == questions' # questions

\* C1: for every play of 0..3 cards and every focus in {Sun, Star, Moon},
\* playIsCorrect returns true iff the play is not empty and every card is the
\* focus or Magic; the empty play is incorrect for every focus.
C1_PlayIsCorrect ==
    pc = "returned" =>
        /\ verdict \in BOOLEAN
        /\ verdict <=> PlayMatches(argPlayed, argFocus)
        /\ (argPlayed = << >> => verdict = FALSE)

C1_Witness == pc = "returned" /\ argPlayed = << >> /\ verdict = FALSE

\* C2: every survive-count stays in {0,1,2}; a bomb risk on a subject whose
\* count is 2 always eliminates it; every elimination resets the subject's
\* count to 0 and every survival adds exactly 1.
C2_SurviveCount ==
    [][/\ \A i \in Seats : surviveCount[i] \in 0 .. 2 /\ surviveCount'[i] \in 0 .. 2
       /\ \A i \in Seats : (alive[i] /\ ~alive'[i]) => surviveCount'[i] = 0
       /\ Resolves =>
             LET s == asked'.subject
             IN /\ s \in Seats
                /\ asked'.before = surviveCount[s]
                /\ asked'.died = ~alive'[s]
                /\ (surviveCount[s] = 2 => ~alive'[s])
                /\ (~alive'[s] => surviveCount'[s] = 0)
                /\ (alive'[s] => surviveCount'[s] = surviveCount[s] + 1)]_vars

C2_Witness ==
    /\ asked.subject \in Seats
    /\ asked.before = 2
    /\ asked.died
    /\ ~alive[asked.subject]
    /\ surviveCount[asked.subject] = 0

\* the questioner and the player questioned of the resolution about to happen
QuestionerNow == IF pc = "decide" THEN next ELSE getNextAlivePlayer(currentPlayerIndex)

\* C3: in every resolution exactly one party is exposed to the bomb: the
\* player who played if the revealed play is incorrect, otherwise the
\* challenger; alive flag and survive-count of everybody else are unchanged.
C3_OneExposed ==
    [][Resolves =>
          LET p == currentPlayerIndex
              q == QuestionerNow
              e == IF ~PlayMatches(lastPlayedByIndex[p], focus) THEN p ELSE q
          IN /\ q \in Seats
             /\ asked'.q = q /\ asked'.p = p /\ asked'.played = lastPlayedByIndex[p]
             /\ asked'.subject = e
             /\ alive'[e] # alive[e] \/ surviveCount'[e] # surviveCount[e]
             /\ \A i \in Seats \ {e} :
                   alive'[i] = alive[i] /\ surviveCount'[i] = surviveCount[i]]_vars

C3_Witness ==
    /\ asked.q \in Seats
    /\ asked.correct
    /\ asked.subject = asked.q
    /\ asked.q # asked.p
    /\ ~alive[asked.q]
    /\ alive[asked.p]

\* C4: every resolution, voluntary or forced, ends the round: after it nobody
\* plays and no second question is resolved before the next reset and re-deal.
C4_QuestionEndsRound ==
    [][anyQuestionAsked =>
          /\ roundOver
          /\ pc \in {"forced", "advance", "roundEnd"}
          /\ pc # "roundEnd" =>
                /\ anyQuestionAsked' /\ roundOver'
                /\ turns' = turns /\ questions' = questions
                /\ hand' = hand /\ lastPlayedByIndex' = lastPlayedByIndex
                /\ alive' = alive /\ surviveCount' = surviveCount
          /\ pc = "roundEnd" => (pc' = "outer" /\ ~anyQuestionAsked' /\ asked' = NoCall)]_vars

C4_Witness == pc = "roundEnd" /\ anyQuestionAsked /\ roundOver /\ asked.forced

\* the condition of the forced-challenge rule as the claim words it
ForcedRuleCondition ==
    /\ ~anyQuestionAsked
    /\ countAlivePlayers = 2
    /\ Len(hand[currentPlayerIndex]) = 0

\* C5: after a play the forced-challenge rule fires exactly when no question
\* was asked in the round, exactly 2 players are alive and the player who
\* just played has an empty hand.
C5_ForcedExactly ==
    [][/\ pc = "forced" => ((Resolves /\ asked'.forced) <=> ForcedRuleCondition)
       /\ (Resolves /\ asked'.forced) => pc = "forced"
       /\ (Resolves /\ pc = "forced") => asked'.forced]_vars

C5_Witness ==
    /\ asked.forced
    /\ pc = "advance"
    /\ Len(hand[asked.p]) = 0

\* C6 as claimed: whenever the forced rule fires the play questioned is
\* incorrect, so the empty-handed player is at fault and never the questioner.
C6_ForcedPlayIncorrect ==
    asked.forced => (~asked.correct /\ asked.subject = asked.p)

\* C6 as amended: whenever the forced rule fires the play questioned is the
\* non-empty play (1..3 cards) that emptied the hand; it is judged like any
\* play: the empty-handed player is at fault iff it is incorrect, otherwise
\* the forced questioner is exposed.
C6_ForcedPlayJudged ==
    asked.forced =>
        /\ Len(asked.played) \in 1 .. 3
        /\ asked.played = lastPlayedByIndex[asked.p]
        /\ Len(hand[asked.p]) = 0
        /\ asked.correct = PlayMatches(asked.played, asked.focus)
        /\ asked.subject = (IF asked.correct THEN asked.q ELSE asked.p)

C6_Witness ==
    /\ asked.forced
    /\ asked.correct
    /\ asked.subject = asked.q
    /\ Len(hand[asked.p]) = 0

\* a step that ends the round: the inner loop is left
RoundEnds == pc # "roundEnd" /\ pc' = "roundEnd"

\* C7 as claimed: a round never ends without a question while some alive
\* player still holds a card.
C7_EndsOnlyWithoutCards ==
    (pc = "roundEnd" /\ ~anyQuestionAsked) =>
        \A i \in Seats : alive[i] => Len(hand[i]) = 0

\* C7 as amended: a round ends iff a question was resolved in it or, at the
\* start of a turn, at most one alive player still holds a card; a round that
\* ends without a question ends with exactly one alive player holding cards.
C7_RoundEndRule ==
    [][/\ RoundEnds <=> \/ (pc = "advance" /\ anyQuestionAsked)
                        \/ (pc = "inner" /\ countAliveWithCards <= 1)
       /\ (RoundEnds /\ ~anyQuestionAsked) =>
             (UNCHANGED <<alive, hand>> /\ countAliveWithCards = 1)
       /\ (Resolves /\ pc = "decide") => pc' = "forced"
       /\ (pc = "forced" /\ anyQuestionAsked) => pc' = "advance"
       /\ (Resolves /\ pc = "forced") => pc' = "advance"]_vars

C7_Witness ==
    /\ pc = "roundEnd"
    /\ ~anyQuestionAsked
    /\ asked = NoCall
    /\ countAliveWithCards = 1
    /\ countAlivePlayers > 1

\* C8: the driver loop stops iff at most one player is alive; when it stops
\* exactly one player is alive and the announced winner is that player.
C8_DriverStops ==
    [][/\ pc = "outer" => ((pc' = "done") <=> (countAlivePlayers <= 1))
       /\ pc' = "done" => /\ pc = "outer"
                          /\ countAlivePlayers' = 1
                          /\ winner' \in Seats
                          /\ alive'[winner']]_vars

C8_Witness ==
    /\ pc = "done"
    /\ countAlivePlayers = 1
    /\ winner \in Seats
    /\ alive[winner]
    /\ winner # 0

\* a step of the skip or of the advance that moves the active pointer
PointerMoves ==
    /\ pc \in {"inner", "advance"}
    /\ ~Resolves
    /\ currentPlayerIndex' # currentPlayerIndex

\* C9: every play is made by a player who is alive and holds a card; the skip
\* and the advance move the pointer only to an alive player with a non-empty
\* hand, and when there is none the round ends instead.
C9_TurnOnlyToPlayers ==
    [][/\ turns' # turns =>
             /\ alive[currentPlayerIndex]
             /\ Len(hand[currentPlayerIndex]) > 0
             /\ Len(hand'[currentPlayerIndex]) < Len(hand[currentPlayerIndex])
       /\ PointerMoves =>
             /\ alive'[currentPlayerIndex']
             /\ Len(hand'[currentPlayerIndex']) > 0
       /\ (pc \in {"inner", "advance"} /\ ~roundOver /\ countAliveWithCards = 0) =>
             (pc' = "roundEnd" /\ currentPlayerIndex' = currentPlayerIndex)]_vars

C9_Witness ==
    /\ pc = "decide"
    /\ turns > 1
    /\ \E i \in Seats : ~alive[i]
    /\ \E i \in Seats : alive[i] /\ Len(hand[i]) = 0 /\ i # currentPlayerIndex

\* seats counted cyclically from the seat after start: 0 for the next seat
SeatsAfter(start, i) == (i - start + NumPlayers - 1) % NumPlayers

\* the first seat of S in cyclic order after start
FirstAfter(start, S) == CHOOSE i \in S : \A j \in S : SeatsAfter(start, i) <= SeatsAfter(start, j)

\* C10 as claimed: the seat given the decision is the next alive seat after
\* the player who played, whether or not its own hand is empty.
C10_NextAliveDecides ==
    pc = "decide" =>
        LET S == {i \in Seats : alive[i]} \ {currentPlayerIndex}
        IN S # {} /\ next = FirstAfter(currentPlayerIndex, S)

\* C10 as amended: the seat given the decision is the next seat after the
\* player who played that is alive and holds a card; an alive player with an
\* empty hand is passed over.
C10_NextWithCardsDecides ==
    pc = "decide" =>
        LET S == {i \in Seats : alive[i] /\ Len(hand[i]) > 0} \ {currentPlayerIndex}
        IN S # {} /\ next = FirstAfter(currentPlayerIndex, S)

C10_Witness ==
    /\ pc = "decide"
    /\ next \in Seats
    /\ \E i \in Seats :
          /\ alive[i] /\ Len(hand[i]) = 0 /\ i # currentPlayerIndex
          /\ SeatsAfter(currentPlayerIndex, i) < SeatsAfter(currentPlayerIndex, next)

\* the player who opens the round after a resolution with questioner q: q when
\* alive, otherwise the first alive seat with cards after q
OpensAfter(q) ==
    IF alive[q] THEN q
    ELSE FirstAfter(q, {i \in Seats : alive[i] /\ Len(hand[i]) > 0})

\* C11: right after every resolution the active pointer is the questioner's
\* seat, whoever was at fault and even if the questioner has just died, and
\* it stays there until the re-deal; the first play of the following round is
\* made by the questioner if alive, otherwise by the next alive player with
\* cards after the questioner's seat.
C11_PointerToChallenger ==
    [][/\ Resolves =>
             /\ currentPlayerIndex' = QuestionerNow
             /\ challenger' = QuestionerNow
       /\ (anyQuestionAsked /\ pc # "done") =>
             (challenger \in Seats /\ currentPlayerIndex' = challenger)
       /\ (turns' # turns /\ challenger # -1) =>
             /\ \E i \in Seats : alive[i] /\ Len(hand[i]) > 0
             /\ currentPlayerIndex = OpensAfter(challenger)
             /\ \A i \in Seats : alive[i] => Len(hand[i]) = CardsPerPlayer]_vars

C11_Witness ==
    /\ pc = "inner"
    /\ asked = NoCall
    /\ turns < MaxTurns
    /\ challenger \in Seats
    /\ ~alive[challenger]
    /\ currentPlayerIndex # challenger
    /\ currentPlayerIndex = OpensAfter(challenger)

\* the seats whose alive flag is set
AliveSet == {i \in Seats : alive[i]}

\* C12: the set of alive players never gains a member, loses at most one
\* member per step, changes only in a resolution, does not change again in
\* the round of that resolution, and is never empty.
C12_OneAtATime ==
    [][/\ AliveSet' \subseteq AliveSet
       /\ Cardinality(AliveSet \ AliveSet') <= 1
       /\ AliveSet' # AliveSet => Resolves
       /\ anyQuestionAsked => AliveSet' = AliveSet
       /\ AliveSet # {} /\ AliveSet' # {}]_vars

C12_Witness ==
    /\ pc = "roundEnd"
    /\ asked.died
    /\ Cardinality(AliveSet) = 1
    /\ ~alive[asked.subject]

\* the number of copies of card c in a sequence of cards
CountIn(sq, c) == Cardinality({i \in 1 .. Len(sq) : sq[i] = c})

\* the number of copies of card c in the hands of the alive seats below k
RECURSIVE HeldBelow(_, _)
HeldBelow(k, c) ==
    IF k = 0 THEN 0
    ELSE HeldBelow(k - 1, c) + (IF alive[k - 1] THEN CountIn(hand[k - 1], c) ELSE 0)

\* the composition of the deck the claim states
Copies(c) == IF c = "Magic" THEN 2 ELSE 6

\* C13: after every reset and deal (the initial one and every round
\* transition) every alive player holds exactly 5 cards, the deck was not
\* short (it keeps 20 minus 5 per alive player), and the alive players' hands
\* plus the remaining deck are exactly 6 Sun, 6 Star, 6 Moon and 2 Magic.
C13_DealtFromTwenty ==
    pc = "outer" =>
        /\ \A i \in Seats : alive[i] => Len(hand[i]) = 5
        /\ Len(deck) = 20 - 5 * countAlivePlayers
        /\ \A i \in 1 .. Len(deck) : deck[i] \in Cards
        /\ \A c \in Cards : CountIn(deck, c) + HeldBelow(NumPlayers, c) = Copies(c)

C13_Witness ==
    /\ pc = "outer"
    /\ questions > 0
    /\ countAlivePlayers = 2
    /\ Len(deck) = 10
    /\ \E i \in Seats : ~alive[i] /\ Len(hand[i]) > 0

\* the game is followed no further: a play or a forced question is due and
\* the budget of plays or questions is used up
BudgetUsed ==
    \/ /\ pc = "inner" /\ countAliveWithCards > 1
       /\ alive[currentPlayerIndex] /\ Len(hand[currentPlayerIndex]) > 0
       /\ turns >= MaxTurns
    \/ /\ pc = "forced" /\ ForcedRuleCondition
       /\ questions >= MaxQuestions

\* every index prompt of the human turn is eventually left
PromptsAnswered == []<>(pc # "indices")

Plays1 == turns' # turns

\* play is exactly what left hand h to give hand h2
LeftTheHand(h, h2, play) ==
    \A c \in Cards : CountIn(h, c) = CountIn(h2, c) + CountIn(play, c)

\* player i has made a play in the current round: it holds fewer cards than
\* were dealt, and it is alive or has died in this round's resolution
PlayedThisRound(i) ==
    /\ Len(hand[i]) < CardsPerPlayer
    /\ alive[i] \/ (asked.died /\ asked.subject = i)

\* C15 as claimed: a player's recorded last play is empty unless that player
\* has made a play in the current round.
C15_RecordOnlyThisRound ==
    pc # "start" =>
        \A i \in Seats : lastPlayedByIndex[i] # << >> => PlayedThisRound(i)

\* C15 as amended: a player's recorded last play is empty until that player's
\* first play of the game and from then on is that player's most recent play,
\* in whichever round it was made: the record changes only when its owner
\* plays, and the round transition retains it.
C15_RecordIsLastPlay ==
    [][/\ turns = 0 => \A i \in Seats : lastPlayedByIndex[i] = << >>
       /\ \A i \in Seats :
             lastPlayedByIndex'[i] # lastPlayedByIndex[i] =>
                 (Plays1 /\ i = currentPlayerIndex)
       /\ Plays1 =>
             LET i == currentPlayerIndex
             IN /\ lastPlayedByIndex'[i] # << >>
                /\ LeftTheHand(hand[i], hand'[i], lastPlayedByIndex'[i])
       /\ pc = "roundEnd" => lastPlayedByIndex' = lastPlayedByIndex]_vars

C15_Witness ==
    /\ pc = "inner"
    /\ asked = NoCall
    /\ \E i \in Seats :
          /\ alive[i]
          /\ Len(hand[i]) = CardsPerPlayer
          /\ lastPlayedByIndex[i] # << >>

\* C16: the play examined in a challenge (voluntary or forced) is exactly the
\* cards the challenged player removed from its own hand in the play just
\* before: 1 to 3 cards, never empty, never an older record, and the hand
\* shrank by that many cards; between that play and the challenge neither
\* the hand nor the record nor the pointer changes.
C16_ExaminedIsJustPlayed ==
    [][/\ Plays1 =>
             LET p == currentPlayerIndex
                 play == lastPlayedByIndex'[p]
             IN /\ pc' \in {"decide", "roundEnd"}
                /\ currentPlayerIndex' = p
                /\ Len(play) \in 1 .. 3
                /\ Len(hand'[p]) = Len(hand[p]) - Len(play)
                /\ LeftTheHand(hand[p], hand'[p], play)
       /\ pc = "decide" =>
             (Resolves \/ (pc' = "forced" /\ ~anyQuestionAsked' /\
                            UNCHANGED <<hand, lastPlayedByIndex, currentPlayerIndex>>))
       /\ pc = "forced" => (Resolves => ~anyQuestionAsked)
       /\ Resolves =>
             /\ pc \in {"decide", "forced"}
             /\ asked'.p = currentPlayerIndex
             /\ asked'.played = lastPlayedByIndex[currentPlayerIndex]
             /\ Len(asked'.played) \in 1 .. 3
             /\ Len(hand[asked'.p]) + Len(asked'.played) <= CardsPerPlayer
             /\ UNCHANGED <<hand, lastPlayedByIndex>>]_vars

C16_Witness ==
    /\ asked.forced
    /\ Len(asked.played) = 3
    /\ asked.played = lastPlayedByIndex[asked.p]
    /\ Len(hand[asked.p]) = 0
    /\ asked.p = 0

\* the accepted indices in ascending order
RECURSIVE SortAsc(_)
SortAsc(sq) ==
    IF Len(sq) = 0 THEN << >>
    ELSE LET m == CHOOSE i \in 1 .. Len(sq) : \A j \in 1 .. Len(sq) : sq[i] <= sq[j]
         IN <<sq[m]>> \o SortAsc(SubSeq(sq, 1, m - 1) \o SubSeq(sq, m + 1, Len(sq)))

\* the cards of h at the 0-based positions idxs, in the order of idxs
CardsAt(h, idxs) == [j \in 1 .. Len(idxs) |-> h[idxs[j] + 1]]

\* h from 1-based position i on, without the 0-based positions idxs
RECURSIVE Without(_, _, _)
Without(h, idxs, i) ==
    IF i > Len(h) THEN << >>
    ELSE (IF InSeq(i - 1, idxs) THEN << >> ELSE <<h[i]>>) \o Without(h, idxs, i + 1)

\* C17 as claimed: with accepted distinct 0-based indices i1..in, in the
\* order entered, the recorded play is h[i1], ..., h[in] in that order, and
\* the hand left is h without those positions, the rest in order.
C17_SelectionOrder ==
    pc = "removed" =>
        /\ resPlayed = CardsAt(argHand, argChosen)
        /\ resHand = Without(argHand, argChosen, 1)

\* C17 as amended: the recorded play is the chosen cards in ascending order
\* of their index in h (the order they had in the hand), whatever order the
\* indices were entered in, and the hand left is h without those positions,
\* the rest in order.
C17_HandOrder ==
    pc = "removed" =>
        /\ resPlayed = CardsAt(argHand, SortAsc(argChosen))
        /\ resHand = Without(argHand, argChosen, 1)
        /\ Len(resPlayed) = Len(argChosen)
        /\ Len(resHand) = Len(argHand) - Len(argChosen)

C17_Witness ==
    /\ pc = "removed"
    /\ argChosen = <<3, 0, 2>>
    /\ argHand = <<"Sun", "Star", "Moon", "Magic", "Star">>
    /\ resPlayed = <<"Sun", "Moon", "Magic">>
    /\ resHand = <<"Star", "Star">>

\* C18: whenever the index loop of the human turn is entered, the accepted
\* count does not exceed the human's hand size, so some sequence of index
\* inputs is accepted and the loop can be left.
C18_CountFitsHand ==
    pc = "indices" =>
        /\ n <= Len(hand[currentPlayerIndex])
        /\ ChosenAfter(hand[currentPlayerIndex], n) # {}

\* C19: in every resolution (voluntary or forced) the questioner and the
\* player questioned are two distinct players and both are alive when the
\* resolution starts: nobody questions its own play and no dead player is a
\* party to a resolution.
C19_TwoLiveParties ==
    [][Resolves =>
          LET p == currentPlayerIndex
              q == QuestionerNow
          IN /\ q \in Seats /\ p \in Seats
             /\ q # p
             /\ alive[q] /\ alive[p]
             /\ asked'.q = q /\ asked'.p = p
             /\ asked'.subject \in {q, p}]_vars

C19_Witness ==
    /\ asked.forced
    /\ asked.q \in Seats
    /\ asked.q # asked.p
    /\ asked.q # (asked.p + 1) % NumPlayers
    /\ ~alive[(asked.p + 1) % NumPlayers]

\* the survivals the alive seats below k can still add: 2 minus the count, each
RECURSIVE SurvivalsLeftBelow(_)
SurvivalsLeftBelow(k) ==
    IF k = 0 THEN 0
    ELSE SurvivalsLeftBelow(k - 1) + (IF alive[k - 1] THEN 2 - surviveCount[k - 1] ELSE 0)

\* with two players alive: the most rounds the game can still take
DuelRoundsLeft == 1 + SurvivalsLeftBelow(NumPlayers)

====
